---- MODULE Spec2Model ----
(***************************************************************************)
(* Model of samplers/_rejection_sampler.py: the argument validation and    *)
(* the accept/reject loop of rejection_sampler, with the target f and the  *)
(* proposal g reduced to small tables over a finite candidate set.         *)
(***************************************************************************)
EXTENDS Integers, Sequences, FiniteSets, TLC

VARIABLES
    f,          \* argument f: the kind of object passed
    g,          \* argument g: the kind of object passed
    M,          \* argument M: [type, num, den, big]
    N,          \* argument N: [type, val]
    numpyDensity, \* TRUE when g.density returns numpy scalars, FALSE for Python floats
    pc,         \* position in rejection_sampler
    err,        \* the exception the call ended with, "" if none
    samples,    \* the buffer `samples`; <<>> before numpy.empty(N) has run
    n,          \* accepted count
    k,          \* iteration count
    x,          \* local x (0 while unbound)
    u,          \* local u (den = 0 while unbound)
    gCalls,     \* number of calls of g.sample()
    uCalls,     \* number of calls of uniform().rvs()
    fEvals,     \* number of evaluations of f
    dEvals,     \* number of evaluations of g.density
    writes,     \* history: per buffer index, the number of stores samples[i] = ...
    accepted,   \* history: the accepted (x, u, iteration) triples, in order
    call,       \* 1 for the first call, 2 for the call after reseeding
    tape,       \* outputs of the shared generator since it was seeded
    pos,        \* number of generator outputs consumed since the last (re)seed
    first       \* the array returned by the first call

vars == <<f, g, M, N, numpyDensity, pc, err, samples, n, k, x, u, gCalls, uCalls,
          fEvals, dEvals, writes, accepted, call, tape, pos, first>>

args == <<f, g, M, N, numpyDensity>>

----------------------------------------------------------------------------
(* Bounds and input domains *)

MaxN == 2

\* Values of M: a non-numeric object, -1, 0, 1/2, 1, 3/2 and a finite float so
\* large (1e200) that M * M overflows to inf.
Num(a, b) == [type |-> "num", num |-> a, den |-> b, big |-> FALSE]
BigM == [type |-> "num", num |-> 1, den |-> 1, big |-> TRUE]
StrM == [type |-> "str", num |-> 0, den |-> 1, big |-> FALSE]
FiniteMs == {Num(1, 2), Num(1, 1), Num(3, 2)}
MArgs == {StrM, Num(0 - 1, 1), Num(0, 1), BigM} \cup FiniteMs

IntN(v) == [type |-> "int", val |-> v]
StrN == [type |-> "str", val |-> 0]
NArgs == {StrN} \cup {IntN(v) : v \in (0 - 1)..MaxN}

FArgs == {"function", "str"}
GArgs == {"ProposalDistribution", "rv_continuous", "str"}

\* The candidates g.sample() can return, and the uniforms uniform().rvs() can return.
Xs == 1..4
Frac(a, b) == [num |-> a, den |-> b]
Us == {Frac(0, 1), Frac(1, 2), Frac(3, 4)}
Unbound == Frac(0, 0)

\* What numpy.empty may leave in a slot it does not initialise.
Uninit == {0, 1}

\* The target f and the density of g on the candidates:
\*   x = 1: f > 0, density > 0      x = 2: f = 0, density > 0
\*   x = 3: f > 0, density = 0      x = 4: f = 0, density = 0
fTarget(c) == CASE c = 1 -> 1 [] c = 2 -> 0 [] c = 3 -> 1 [] OTHER -> 0
gDensity(c) == CASE c = 1 -> 1 [] c = 2 -> 1 [] OTHER -> 0

\* The largest finite budget M * M * N of the model is (9/4) * MaxN; k stops
\* being counted at KCap, which only a run with an infinite budget reaches.
KCap == (9 * MaxN) \div 4 + 3

----------------------------------------------------------------------------
(* Argument validation, lines 61-82 *)

TypeErr(a) == [exc |-> "TypeError", arg |-> a]
ValueErr(a) == [exc |-> "ValueError", arg |-> a]
NoErr == [exc |-> "", arg |-> ""]

MNonPositive(m) == ~m.big /\ m.num <= 0

\* Variants of ArgError: N <= 0 tested as N < 0; the type of N tested before
\* the value of M.
ArgErrorZeroNAllowed(af, ag, am, an) ==
    IF af # "function" THEN TypeErr("f")
    ELSE IF ag \notin {"ProposalDistribution", "rv_continuous"} THEN TypeErr("g")
    ELSE IF am.type # "num" THEN TypeErr("M")
    ELSE IF MNonPositive(am) THEN ValueErr("M")
    ELSE IF an.type # "int" THEN TypeErr("N")
    ELSE IF an.val < 0 THEN ValueErr("N")
    ELSE NoErr

ArgErrorTypesFirst(af, ag, am, an) ==
    IF af # "function" THEN TypeErr("f")
    ELSE IF ag \notin {"ProposalDistribution", "rv_continuous"} THEN TypeErr("g")
    ELSE IF am.type # "num" THEN TypeErr("M")
    ELSE IF an.type # "int" THEN TypeErr("N")
    ELSE IF MNonPositive(am) THEN ValueErr("M")
    ELSE IF an.val <= 0 THEN ValueErr("N")
    ELSE NoErr

ArgError(af, ag, am, an) ==
    IF af # "function" THEN TypeErr("f")
    ELSE IF ag \notin {"ProposalDistribution", "rv_continuous"} THEN TypeErr("g")
    ELSE IF am.type # "num" THEN TypeErr("M")
    ELSE IF MNonPositive(am) THEN ValueErr("M")
    ELSE IF an.type # "int" THEN TypeErr("N")
    ELSE IF an.val <= 0 THEN ValueErr("N")
    ELSE NoErr

Init ==
    /\ f \in FArgs
    /\ g \in GArgs
    /\ M \in MArgs
    /\ N \in NArgs
    /\ numpyDensity \in BOOLEAN
    /\ (g # "ProposalDistribution" => numpyDensity)
    /\ pc = "entry"
    /\ err = NoErr
    /\ samples = <<>>
    /\ n = 0
    /\ k = 0
    /\ x = 0
    /\ u = Unbound
    /\ gCalls = 0
    /\ uCalls = 0
    /\ fEvals = 0
    /\ dEvals = 0
    /\ writes = <<>>
    /\ accepted = <<>>
    /\ call = 1
    /\ tape = <<>>
    /\ pos = 0
    /\ first = <<>>

\* Variant of Enter: the buffer is allocated once N is known to be a positive
\* int, before the remaining checks.
EnterAllocatesEarly ==
    /\ pc = "entry"
    /\ LET e == ArgError(f, g, M, N) IN
       IF e # NoErr
       THEN /\ pc' = "raised"
            /\ err' = e
            /\ IF N.type = "int" /\ N.val > 0
               THEN samples' \in [1..N.val -> Uninit]
               ELSE samples' = samples
            /\ UNCHANGED <<writes, n, k>>
       ELSE /\ pc' = "while"
            /\ err' = err
            /\ samples' \in [1..N.val -> Uninit]
            /\ writes' = [i \in 1..N.val |-> 0]
            /\ n' = 0
            /\ k' = 0
    /\ UNCHANGED <<args, x, u, gCalls, uCalls, fEvals, dEvals, accepted, call,
                   tape, pos, first>>

\* Lines 61-91: validate, then allocate the buffer and zero the counters.
Enter ==
    /\ pc = "entry"
    /\ LET e == ArgError(f, g, M, N) IN
       IF e # NoErr
       THEN /\ pc' = "raised"
            /\ err' = e
            /\ UNCHANGED <<samples, writes, n, k>>
       ELSE /\ pc' = "while"
            /\ err' = err
            /\ samples' \in [1..N.val -> Uninit]
            /\ writes' = [i \in 1..N.val |-> 0]
            /\ n' = 0
            /\ k' = 0
    /\ UNCHANGED <<args, x, u, gCalls, uCalls, fEvals, dEvals, accepted, call,
                   tape, pos, first>>

----------------------------------------------------------------------------
(* The rejection loop, lines 100-115 *)

\* Python ints do not overflow. A counter is counted up to KCap and held there.
Incr(c) == IF c < KCap THEN c + 1 ELSE c

\* Variant of BudgetExceeded: k >= M * M * N.
BudgetReached(kk, m, nn) ==
    /\ ~m.big
    /\ kk * m.den * m.den >= m.num * m.num * nn

\* Line 102: k > M * M * N. With M = 1e200 the float product is inf and no
\* int compares greater than it.
BudgetExceeded(kk, m, nn) ==
    /\ ~m.big
    /\ kk * m.den * m.den > m.num * m.num * nn

\* Variant of While: k is incremented before the budget check.
WhileCountsFirst ==
    /\ pc = "while"
    /\ IF n < N.val
       THEN /\ k' = Incr(k)
            /\ pc' = IF BudgetExceeded(Incr(k), M, N.val) THEN "done" ELSE "sample"
       ELSE /\ k' = k
            /\ pc' = "done"
    /\ UNCHANGED <<args, err, samples, n, x, u, gCalls, uCalls, fEvals, dEvals,
                   writes, accepted, call, tape, pos, first>>

\* Lines 100-104: the loop test, the budget check and the increment of k.
\* Leaving the loop reaches the return of line 115.
While ==
    /\ pc = "while"
    /\ IF n < N.val /\ ~BudgetExceeded(k, M, N.val)
       THEN /\ k' = Incr(k)
            /\ pc' = "sample"
       ELSE /\ k' = k
            /\ pc' = "done"
    /\ UNCHANGED <<args, err, samples, n, x, u, gCalls, uCalls, fEvals, dEvals,
                   writes, accepted, call, tape, pos, first>>

\* Line 106: x = g.sample()
SampleStep(c) ==
    /\ pc = "sample"
    /\ x' = c
    /\ gCalls' = Incr(gCalls)
    /\ pc' = "uniform"
    /\ UNCHANGED <<args, err, samples, n, k, u, uCalls, fEvals, dEvals, writes,
                   accepted, call, first>>

\* Line 107: u = uniform().rvs()
UniformStep(v) ==
    /\ pc = "uniform"
    /\ u' = v
    /\ uCalls' = Incr(uCalls)
    /\ pc' = "test"
    /\ UNCHANGED <<args, err, samples, n, k, x, gCalls, fEvals, dEvals, writes,
                   accepted, call, first>>

\* Lines 93-95: f(x) / (M * g.density(x)). A zero density makes the divisor
\* zero: numpy scalars give inf or nan, Python floats raise. With M = 1e200
\* the quotient is zero or too small for any positive uniform.
Quot(kind, a, b) == [kind |-> kind, num |-> a, den |-> b]
proposal(c, m, np) ==
    LET fx == fTarget(c)
        d == gDensity(c)
    IN  IF d = 0
        THEN IF ~np THEN Quot("ZeroDivisionError", 0, 0)
             ELSE IF fx > 0 THEN Quot("inf", 0, 0) ELSE Quot("nan", 0, 0)
        ELSE IF m.big
             THEN IF fx > 0 THEN Quot("tiny", 0, 0) ELSE Quot("num", 0, 1)
             ELSE Quot("num", fx * m.den, m.num * d)

\* Variant of LessEq: the comparison reversed, proposal(x) <= u.
GreaterEq(v, r) ==
    CASE r.kind = "inf" -> FALSE
      [] r.kind = "nan" -> FALSE
      [] r.kind = "tiny" -> v.num > 0
      [] OTHER -> r.num * v.den <= v.num * r.den

\* Line 111: u <= proposal(x)
LessEq(v, r) ==
    CASE r.kind = "inf" -> TRUE
      [] r.kind = "nan" -> FALSE
      [] r.kind = "tiny" -> v.num = 0
      [] OTHER -> v.num * r.den <= r.num * v.den

\* Variant of Store: samples[0] = x.
StoreFirst(buf, cnt, c) == [buf EXCEPT ![1] = c]

\* Lines 112-113: samples[n] = x; n += 1
Store(buf, cnt, c) == [buf EXCEPT ![cnt + 1] = c]

\* Lines 111-113: evaluate the ratio, compare, store an accepted candidate.
Test ==
    /\ pc = "test"
    /\ fEvals' = Incr(fEvals)
    /\ dEvals' = Incr(dEvals)
    /\ LET r == proposal(x, M, numpyDensity) IN
       IF r.kind = "ZeroDivisionError"
       THEN /\ pc' = "raised"
            /\ err' = [exc |-> "ZeroDivisionError", arg |-> ""]
            /\ UNCHANGED <<samples, n, writes, accepted>>
       ELSE /\ pc' = "while"
            /\ err' = err
            /\ IF LessEq(u, r)
               THEN /\ samples' = Store(samples, n, x)
                    /\ n' = n + 1
                    /\ writes' = [writes EXCEPT ![n + 1] = @ + 1]
                    /\ accepted' = Append(accepted, [x |-> x, u |-> u, it |-> k])
               ELSE UNCHANGED <<samples, n, writes, accepted>>
    /\ UNCHANGED <<args, k, x, u, gCalls, uCalls, call, tape, pos, first>>

\* A call whose generator state is not tracked.
Sample == \E c \in Xs : SampleStep(c) /\ UNCHANGED <<tape, pos>>
Uniform == \E v \in Us : UniformStep(v) /\ UNCHANGED <<tape, pos>>

Next == Enter \/ While \/ Sample \/ Uniform \/ Test

Spec == Init /\ [][Next]_vars

\* The call is one synchronous thread of control: it takes its next step.
FairSpec == Init /\ [][Next]_vars /\ WF_vars(Next)

----------------------------------------------------------------------------
(* Two calls from the same generator state *)

\* The shared generator is a deterministic function of its state: from the
\* same seed, output number pos + 1 is the same on every run.
Generate(out) ==
    /\ pos' = pos + 1
    /\ IF pos < Len(tape)
       THEN /\ tape[pos + 1] = out
            /\ tape' = tape
       ELSE tape' = Append(tape, out)

SeededSample == \E c \in Xs : SampleStep(c) /\ Generate([x |-> c, u |-> Unbound])
SeededUniform == \E v \in Us : UniformStep(v) /\ Generate([x |-> 0, u |-> v])

\* The caller keeps the returned array, reseeds the generator and calls again
\* with the same arguments.
Reseed ==
    /\ pc = "done"
    /\ call = 1
    /\ first' = samples
    /\ call' = 2
    /\ pos' = 0
    /\ pc' = "entry"
    /\ samples' = <<>>
    /\ writes' = <<>>
    /\ accepted' = <<>>
    /\ n' = 0
    /\ k' = 0
    /\ x' = 0
    /\ u' = Unbound
    /\ gCalls' = 0
    /\ uCalls' = 0
    /\ fEvals' = 0
    /\ dEvals' = 0
    /\ UNCHANGED <<args, err, tape>>

\* Both calls are made with valid arguments and a budget of at most N.
SeededMs == {Num(1, 2), Num(1, 1)}

SeededInit ==
    /\ Init
    /\ ArgError(f, g, M, N) = NoErr
    /\ M \in SeededMs

SeededNext == Enter \/ While \/ SeededSample \/ SeededUniform \/ Test \/ Reseed

SeededSpec == SeededInit /\ [][SeededNext]_vars

----------------------------------------------------------------------------
(* Vocabulary of the properties *)

fIsFunction == f = "function"
gIsProposal == g \in {"ProposalDistribution", "rv_continuous"}
MIsNumber == M.type = "num"
MIsPositive == M.big \/ M.num > 0
NIsInt == N.type = "int"
NIsPositive == N.val > 0
MValid == MIsNumber /\ MIsPositive
NValid == NIsInt /\ NIsPositive
AllValid == fIsFunction /\ gIsProposal /\ MValid /\ NValid

ValidationError == pc = "raised" /\ err.exc \in {"TypeError", "ValueError"}
Returned == pc = "done"
Running == pc \in {"while", "sample", "uniform", "test"}

\* v <= f(c) / (M * g.density(c)) in IEEE arithmetic, for a positive M.
PassesTest(c, v) ==
    IF gDensity(c) = 0 THEN numpyDensity /\ fTarget(c) > 0
    ELSE IF M.big THEN v.num = 0
    ELSE v.num * M.num * gDensity(c) <= fTarget(c) * M.den * v.den

\* k > M * M * N
OverBudget == ~M.big /\ k * M.den * M.den > M.num * M.num * N.val

\* The first cnt entries of the buffer are the accepted candidates, in order.
PrefixIsAccepted(cnt) ==
    /\ Len(accepted) = cnt
    /\ \A i \in 1..cnt :
        /\ samples[i] = accepted[i].x
        /\ accepted[i].x \in Xs
        /\ accepted[i].u \in Us
        /\ PassesTest(accepted[i].x, accepted[i].u)
    /\ \A i, j \in 1..cnt :
        i < j => /\ accepted[i].it <= accepted[j].it
                 /\ (accepted[j].it < KCap => accepted[i].it < accepted[j].it)

----------------------------------------------------------------------------
(* Properties *)

\* C1: a returned buffer has length N, and when the loop ended with n = N
\* every entry is a candidate drawn from g.sample() that passed the test
\* u <= f(x) / (M * g.density(x)) with the uniform of its iteration, the
\* entries in acceptance order.
C1_ReturnedBufferHoldsAccepted ==
    Returned =>
        /\ Len(samples) = N.val
        /\ (n = N.val => PrefixIsAccepted(N.val))

C1_Witness ==
    /\ Returned
    /\ n = N.val
    /\ N.val = 2
    /\ samples[1] # samples[2]

\* C2: with the other three arguments valid, a non-function f, a g that is
\* no proposal, a non-numeric M and a non-int N each end the call with
\* TypeError, M <= 0 and N <= 0 each end it with ValueError; no call with an
\* invalid argument gets past validation.
C2_InvalidArgumentRaises ==
    pc # "entry" =>
        /\ (~fIsFunction /\ gIsProposal /\ MValid /\ NValid
                => pc = "raised" /\ err.exc = "TypeError")
        /\ (fIsFunction /\ ~gIsProposal /\ MValid /\ NValid
                => pc = "raised" /\ err.exc = "TypeError")
        /\ (fIsFunction /\ gIsProposal /\ ~MIsNumber /\ NValid
                => pc = "raised" /\ err.exc = "TypeError")
        /\ (fIsFunction /\ gIsProposal /\ MIsNumber /\ ~MIsPositive /\ NValid
                => pc = "raised" /\ err.exc = "ValueError")
        /\ (fIsFunction /\ gIsProposal /\ MValid /\ ~NIsInt
                => pc = "raised" /\ err.exc = "TypeError")
        /\ (fIsFunction /\ gIsProposal /\ MValid /\ NIsInt /\ ~NIsPositive
                => pc = "raised" /\ err.exc = "ValueError")
        /\ (Running \/ Returned => AllValid)

C2_Witness ==
    /\ pc = "raised"
    /\ err.exc = "ValueError"
    /\ fIsFunction /\ gIsProposal /\ MValid
    /\ NIsInt /\ N.val = 0

\* C3: a call that ends in a TypeError or ValueError of the validation has
\* allocated no buffer, called g.sample() and uniform().rvs() zero times and
\* evaluated f and g.density zero times.
C3_NoWorkBeforeValidationError ==
    ValidationError =>
        /\ samples = <<>>
        /\ gCalls = 0
        /\ uCalls = 0
        /\ fEvals = 0
        /\ dEvals = 0

C3_Witness ==
    /\ ValidationError
    /\ err.arg = "N"
    /\ fIsFunction /\ gIsProposal /\ MValid

\* C4: for every valid M > 0 and positive int N and every sequence of
\* accept/reject outcomes the loop terminates. (A run that leaves through
\* ZeroDivisionError has an iteration with neither outcome; it ends too.)
C4_LoopTerminates == AllValid => <>(pc \in {"done", "raised"})

C6_SameSeedSameArray == call = 2 /\ Returned => samples = first

C8_DrawCounts ==
    /\ (pc \notin {"sample", "uniform"} => gCalls = k /\ uCalls = k)
    /\ (pc = "sample" => gCalls = uCalls /\ (gCalls < KCap => k = gCalls + 1))
    /\ (pc = "uniform" => gCalls = k /\ (uCalls < KCap => k = uCalls + 1))

C8_Step ==
    /\ (pc = "while" /\ pc' = "sample" =>
            /\ n < N.val /\ ~OverBudget
            /\ (k < KCap => k' = k + 1)
            /\ gCalls' = gCalls /\ uCalls' = uCalls)
    /\ (pc = "while" /\ pc' = "done" =>
            /\ n = N.val \/ OverBudget
            /\ k' = k /\ gCalls' = gCalls /\ uCalls' = uCalls)
    /\ (pc = "sample" =>
            /\ pc' = "uniform" /\ x' \in Xs /\ k' = k
            /\ (gCalls < KCap => gCalls' = gCalls + 1)
            /\ uCalls' = uCalls)
    /\ (pc = "uniform" =>
            /\ pc' = "test" /\ u' \in Us /\ x' = x /\ k' = k
            /\ (uCalls < KCap => uCalls' = uCalls + 1)
            /\ gCalls' = gCalls)
    /\ (pc = "test" =>
            /\ k' = k /\ gCalls' = gCalls /\ uCalls' = uCalls
            /\ (pc' = "while" /\ ~PassesTest(x, u)
                    => n' = n /\ samples' = samples /\ writes' = writes)
            /\ (pc' = "while" /\ PassesTest(x, u) => n' = n + 1))

C8_IterationOrder == []C8_DrawCounts /\ [][C8_Step]_vars

C8_Witness == Returned /\ n < N.val /\ k >= 2 /\ gCalls = k /\ uCalls = k

\* C9: the error raised is that of the first failing check in the order
\* f type, g type, M type, M value, N type, N value.
C9_FirstFailingCheckWins ==
    pc # "entry" =>
        /\ (~fIsFunction => err = TypeErr("f"))
        /\ (fIsFunction /\ ~gIsProposal => err = TypeErr("g"))
        /\ (fIsFunction /\ gIsProposal /\ ~MIsNumber => err = TypeErr("M"))
        /\ (fIsFunction /\ gIsProposal /\ MIsNumber /\ ~MIsPositive
                => err = ValueErr("M"))
        /\ (fIsFunction /\ gIsProposal /\ MValid /\ ~NIsInt => err = TypeErr("N"))
        /\ (fIsFunction /\ gIsProposal /\ MValid /\ NIsInt /\ ~NIsPositive
                => err = ValueErr("N"))

C9_Witness ==
    /\ pc = "raised"
    /\ err = ValueErr("M")
    /\ ~NIsInt

\* C10: when every drawn candidate passes the test (each of the k iterations
\* accepted, n = k), the call returns with n = N.
C10_FastRunFillsBuffer == Returned /\ n = k => n = N.val

====
